---- MODULE Spec2Model ----
(***************************************************************************)
(* A model of the action-items mail fetcher: the query builder             *)
(* (src/src/email/gmail_client.py), the last-run store                     *)
(* (src/src/utils/state.py), the body decoder and the fetch orchestrator   *)
(* (gmail_client.py) and the fetch / reset / status commands (src/main.py).*)
(*                                                                         *)
(* Four specifications share the variables:                                *)
(*   SpecQuery  build_query applied to arguments drawn from bounded sets   *)
(*   SpecStore  sequences of save_last_run / reset_last_run / get_last_run *)
(*              calls on the marker file, with outside writes to the file  *)
(*   SpecBody   get_email_body applied to payload trees                    *)
(*   Spec       the command line: fetch runs (split at the provider        *)
(*              calls), reset, status, and the clock                       *)
(***************************************************************************)
EXTENDS Integers, Sequences, FiniteSets, TLC

VARIABLES
    pc,          \* position of the running call or command
    now,         \* the wall clock, what datetime.now() returns
    file,        \* the marker file .last_run.json
    qArgs,       \* SpecQuery: the arguments of build_query
    qResult,     \* SpecQuery: the query build_query returned
    lastMut,     \* SpecStore: the most recent call that changed the store
    got,         \* SpecStore: what the most recent get_last_run did
    payload,     \* SpecBody: the payload given to get_email_body
    bodyResult,  \* SpecBody: what get_email_body did
    opts,        \* Spec: the date options the fetch command was given
    run,         \* Spec: the locals of fetch() in main.py
    fe,          \* Spec: the locals of fetch_emails()
    calls,       \* Spec: the provider calls of this run, in order
    hist         \* Spec: what the run saw and did to the marker file

vars == <<pc, now, file, qArgs, qResult, lastMut, got, payload, bodyResult,
          opts, run, fe, calls, hist>>

-----------------------------------------------------------------------------
(* Bounds of the model.                                                    *)

\* Clock ticks in a calendar day (the model's resolution of a datetime).
DayLen == 2
\* The last calendar day a datetime argument or a stored marker is drawn from.
MaxDay == 2
\* The largest day-count argument.
MaxDays == 1
\* The longest label list.
MaxLabels == 2

-----------------------------------------------------------------------------
(* Optional values: None is the empty sequence, a present value v is <<v>>.*)

None == <<>>
Some(v) == <<v>>
Opt(S) == {None} \cup {Some(v) : v \in S}

\* Python truthiness of an Optional[int]: None and 0 are false.
IntTruthy(x) == x # None /\ x[1] # 0
\* Python truthiness of an Optional[datetime]: every datetime is true.
DatetimeTruthy(x) == x # None

\* The least and the greatest member of a non-empty set of integers.
Least(S) == CHOOSE i \in S : \A j \in S : i <= j
Greatest(S) == CHOOSE i \in S : \A j \in S : j <= i

-----------------------------------------------------------------------------
(* datetime: a calendar day and the tick within it.                        *)

Datetime(d, t) == [day |-> d, tick |-> t]
Datetimes == {Datetime(d, t) : d \in 0..MaxDay, t \in 0..(DayLen - 1)}
\* A date given as %Y-%m-%d is midnight of that day.
Midnights == {Datetime(d, 0) : d \in 0..MaxDay}

\* datetime.timestamp(): seconds (ticks) since the epoch.
timestamp(dt) == dt.day * DayLen + dt.tick
\* datetime.fromtimestamp(n)
fromtimestamp(n) == Datetime(n \div DayLen, n % DayLen)
\* dt - timedelta(days=n)
MinusDays(dt, n) == Datetime(dt.day - n, dt.tick)
\* dt.strftime('%Y/%m/%d'): the calendar day alone.
strftime_date(dt) == dt.day

-----------------------------------------------------------------------------
(* build_query, gmail_client.py:12-60.  A query is the sequence of its     *)
(* terms (the code joins them with single spaces).                         *)

UnreadTerm == [k |-> "is:unread", d |-> 0, s |-> ""]
AfterTerm(day) == [k |-> "after:", d |-> day, s |-> ""]
BeforeTerm(day) == [k |-> "before:", d |-> day, s |-> ""]
LabelTerm(l) == [k |-> "label:", d |-> 0, s |-> l]

LabelTerms(labels) == [i \in 1..Len(labels) |-> LabelTerm(labels[i])]

\* The date filters, lines 44-53.
DateTerms(after, before, days, clock) ==
    IF IntTruthy(days)
    THEN <<AfterTerm(strftime_date(MinusDays(clock, days[1])))>>
    ELSE (IF DatetimeTruthy(after) THEN <<AfterTerm(strftime_date(after[1]))>> ELSE <<>>)
         \o (IF DatetimeTruthy(before) THEN <<BeforeTerm(strftime_date(before[1]))>> ELSE <<>>)

build_query(after, before, days, unread_only, labels, clock) ==
    (IF unread_only THEN <<UnreadTerm>> ELSE <<>>)
    \o DateTerms(after, before, days, clock)
    \o (IF labels # None THEN LabelTerms(labels[1]) ELSE <<>>)

\* The terms of a query that bound the date.
IsDateTerm(t) == t.k \in {"after:", "before:"}
DateTermsOf(q) == SelectSeq(q, IsDateTerm)

-----------------------------------------------------------------------------
(* Values of the variables a specification does not use.                   *)

NoArgs == <<>>
NoResult == <<>>
NoMutation == [op |-> "none", t |-> None]
NotCalled == [called |-> FALSE, raised |-> "", value |-> None]
NoPayload == <<>>
NoOpts == <<>>
NoRun == <<>>
NoFetch == <<>>
NoHist == <<>>

\* What a call did: it returned a value, or raised an exception.
Return(v) == [called |-> TRUE, raised |-> "", value |-> v]
Raise(e) == [called |-> TRUE, raised |-> e, value |-> None]

-----------------------------------------------------------------------------
(* SpecQuery: build_query on arguments drawn from bounded sets.            *)

LabelNames == {"INBOX", "IMPORTANT"}
LabelLists == UNION {[1..n -> LabelNames] : n \in 0..MaxLabels}

QueryArgs ==
    [after : Opt(Datetimes), before : Opt(Midnights), days : Opt(-1..MaxDays),
     unread_only : BOOLEAN, labels : Opt(LabelLists)]

QueryInit ==
    /\ pc = "call"
    /\ now \in Datetimes
    /\ qArgs \in QueryArgs
    /\ qResult = NoResult
    /\ file = <<>>
    /\ lastMut = NoMutation /\ got = NotCalled
    /\ payload = NoPayload /\ bodyResult = NotCalled
    /\ opts = NoOpts /\ run = NoRun /\ fe = NoFetch /\ calls = <<>> /\ hist = NoHist

BuildQuery ==
    /\ pc = "call"
    /\ qResult' = build_query(qArgs.after, qArgs.before, qArgs.days,
                              qArgs.unread_only, qArgs.labels, now)
    /\ pc' = "return"
    /\ UNCHANGED <<now, file, qArgs, lastMut, got, payload, bodyResult,
                   opts, run, fe, calls, hist>>

QueryNext == BuildQuery

SpecQuery == QueryInit /\ [][QueryNext]_vars

\* C2: whenever days is provided (any integer, 0 included), the query holds
\* exactly one date term, after:(now - days), and nothing from after/before.
C2_DaysAlwaysOverrides ==
    (pc = "return" /\ qArgs.days # None) =>
        DateTermsOf(qResult) =
            <<AfterTerm(strftime_date(MinusDays(now, qArgs.days[1])))>>

-----------------------------------------------------------------------------
(* The marker file and the last-run store, state.py.                       *)

\* A JSON value found under the key last_run.
JsonAbsent == [t |-> "absent", n |-> 0, s |-> ""]
JsonNull == [t |-> "null", n |-> 0, s |-> ""]
JsonNumber(n) == [t |-> "number", n |-> n, s |-> ""]
JsonNaN == [t |-> "nan", n |-> 0, s |-> ""]
\* A number beyond the platform's time_t.
JsonHuge == [t |-> "huge", n |-> 0, s |-> ""]
JsonString(s) == [t |-> "string", n |-> 0, s |-> s]

\* Python truthiness of what data.get("last_run") returns.
JsonTruthy(v) ==
    CASE v.t \in {"absent", "null"} -> FALSE
      [] v.t = "number" -> v.n # 0
      [] v.t = "string" -> v.s # ""
      [] OTHER -> TRUE

\* The content of the file: bytes that are no text, text that is no JSON, a
\* JSON value that is no object, or an object.
Doc(kind, last_run, readable) ==
    [kind |-> kind, last_run |-> last_run, last_run_readable |-> readable]
NoFile == [exists |-> FALSE, doc |-> Doc("none", JsonAbsent, None)]
FileOf(doc) == [exists |-> TRUE, doc |-> doc]

\* get_last_run, state.py:13-31.
get_last_run(f) ==
    IF ~f.exists THEN Return(None)
    ELSE CASE f.doc.kind = "binary" -> Return(None)          \* UnicodeDecodeError, a ValueError
           [] f.doc.kind = "invalid" -> Return(None)         \* json.JSONDecodeError
           [] f.doc.kind = "nonobject" -> Raise("AttributeError")  \* data.get
           [] OTHER ->
                LET ts == f.doc.last_run IN
                IF ~JsonTruthy(ts) THEN Return(None)
                ELSE CASE ts.t = "number" -> Return(Some(fromtimestamp(ts.n)))
                       [] ts.t = "nan" -> Return(None)       \* ValueError
                       [] ts.t = "huge" -> Raise("OverflowError")
                       [] OTHER -> Raise("TypeError")        \* a string

\* save_last_run, state.py:34-48: the file after the call.
save_last_run(ts) ==
    FileOf(Doc("object", JsonNumber(timestamp(ts)), Some(ts)))

\* reset_last_run, state.py:51-57: the file after the call.
reset_last_run(f) == NoFile

-----------------------------------------------------------------------------
(* SpecStore: the store under any sequence of its three calls, and writes  *)
(* to the file from outside the program.                                   *)

JsonValues ==
    {JsonAbsent, JsonNull, JsonNaN, JsonHuge, JsonString(""), JsonString("abc")}
    \cup {JsonNumber(n) : n \in 0..(DayLen * (MaxDay + 1) - 1)}
OutsideDocs ==
    {Doc(k, JsonAbsent, None) : k \in {"binary", "invalid", "nonobject"}}
    \cup {Doc("object", v, r) : v \in JsonValues, r \in Opt(Midnights)}

StoreInit ==
    /\ pc = "store"
    /\ now = Datetime(0, 0)
    /\ file = NoFile
    /\ lastMut = NoMutation
    /\ got = NotCalled
    /\ qArgs = NoArgs /\ qResult = NoResult
    /\ payload = NoPayload /\ bodyResult = NotCalled
    /\ opts = NoOpts /\ run = NoRun /\ fe = NoFetch /\ calls = <<>> /\ hist = NoHist

StoreUnchanged ==
    UNCHANGED <<pc, now, qArgs, qResult, payload, bodyResult, opts, run, fe, calls, hist>>

Save ==
    \E ts \in Datetimes :
        /\ file' = save_last_run(ts)
        /\ lastMut' = [op |-> "save", t |-> Some(ts)]
        /\ got' = NotCalled
        /\ StoreUnchanged

Reset ==
    /\ file' = reset_last_run(file)
    /\ lastMut' = [op |-> "reset", t |-> None]
    /\ got' = NotCalled
    /\ StoreUnchanged

Get ==
    /\ got' = get_last_run(file)
    /\ UNCHANGED <<file, lastMut>>
    /\ StoreUnchanged

OutsideWrite ==
    \E doc \in OutsideDocs :
        /\ file' = FileOf(doc)
        /\ lastMut' = [op |-> "outside", t |-> None]
        /\ got' = NotCalled
        /\ StoreUnchanged

StoreNext == Save \/ Reset \/ Get \/ OutsideWrite

SpecStore == StoreInit /\ [][StoreNext]_vars

\* C4: get_last_run returns T when the most recent mutating call was
\* save_last_run(T), for every T (the epoch included), and None when it was
\* reset_last_run or when nothing was ever saved.
C4_StoreRoundTrip ==
    got.called =>
        /\ lastMut.op = "save" => got = Return(lastMut.t)
        /\ lastMut.op \in {"reset", "none"} => got = Return(None)

\* A file that holds the expected document: an object whose last_run is a
\* number a datetime can be made from.
ExpectedDocument(f) == f.doc.kind = "object" /\ f.doc.last_run.t = "number"

\* C5: on every file that is unreadable or is not the expected document,
\* get_last_run returns None and does not raise.
C5_CorruptMarkerIsNeverRun ==
    (got.called /\ file.exists /\ ~ExpectedDocument(file)) => got = Return(None)

-----------------------------------------------------------------------------
(* get_email_body, gmail_client.py:106-142.                                *)
(*                                                                         *)
(* A payload node: its MIME type, its inline body data (None when the node *)
(* has no "body" or the body has no "data") and its child list (None when  *)
(* the node has no "parts" key).                                           *)

Node(m, d, ps) == [mimeType |-> m, body |-> d, parts |-> ps]

\* base64.urlsafe_b64decode(data).decode("utf-8") on the data of the model.
b64decode(d) ==
    CASE d = "" -> Return("")
      [] d = "cGxhaW4=" -> Return("plain")
      [] d = "PGI-" -> Return("<b>")
      [] d = "bmVzdA==" -> Return("nest")
      [] OTHER -> Raise("binascii.Error")       \* "abc": incorrect padding

\* Line 128: a text/plain part with data.
IsPlainWithData_html(part) ==
    part.mimeType \in {"text/plain", "text/html"} /\ part.body # None
IsPlainWithData(part) == part.mimeType = "text/plain" /\ part.body # None
\* Line 133: a text/html part with data.
IsHtmlWithData(part) == part.mimeType = "text/html" /\ part.body # None

\* Line 139, `if nested_body:`: the walk ends at this child with the result of
\* the recursive call (an exception of the call ends it as well).
NestedReturns_never(nested_body) == nested_body.raised # ""
NestedReturns(nested_body) == nested_body.raised # "" \/ nested_body.value # ""

RECURSIVE get_email_body(_), WalkParts(_, _, _)

\* The loop of lines 124-140 from child i on, with the HTML fallback so far.
WalkParts(parts, i, body) ==
    IF i > Len(parts) THEN Return(body)
    ELSE LET part == parts[i] IN
         IF IsPlainWithData(part) THEN b64decode(part.body[1])
         ELSE LET html == IF IsHtmlWithData(part)
                          THEN b64decode(part.body[1])
                          ELSE Return(body)
              IN  IF html.raised # "" THEN html
                  ELSE IF part.parts # None
                       THEN LET nested_body == get_email_body(part) IN
                            IF NestedReturns(nested_body)
                            THEN nested_body
                            ELSE WalkParts(parts, i + 1, html.value)
                       ELSE WalkParts(parts, i + 1, html.value)

get_email_body(p) ==
    IF p.body # None THEN b64decode(p.body[1])
    ELSE IF p.parts # None THEN WalkParts(p.parts[1], 1, "")
    ELSE Return("")

-----------------------------------------------------------------------------
(* SpecBody: get_email_body on payload trees drawn from bounded sets.      *)

\* The longest child list of the payload.
MaxParts == 3

Encodings == {"", "cGxhaW4=", "PGI-", "abc"}

Leaves ==
    {Node(m, d, None) : m \in {"text/plain", "text/html"}, d \in Opt(Encodings)}
    \cup {Node("image/png", Some("cGxhaW4="), None)}

NestedLeaves ==
    {Node("text/plain", Some("bmVzdA=="), None), Node("text/plain", Some(""), None),
     Node("text/html", Some("bmVzdA=="), None), Node("text/html", None, None)}

Containers ==
    {Node("multipart/alternative", None, Some(<<>>)),
     Node("multipart/alternative", Some("bmVzdA=="), Some(<<>>))}
    \cup {Node("multipart/alternative", None, Some(<<n>>)) : n \in NestedLeaves}
    \cup {Node("multipart/mixed", None,
                Some(<<Node("multipart/alternative", None,
                            Some(<<Node("text/plain", Some("bmVzdA=="), None)>>))>>))}

PartLists == UNION {[1..n -> Leaves \cup Containers] : n \in 0..MaxParts}

Payloads ==
    {Node("text/plain", Some(d), None) : d \in Encodings}
    \cup {Node("multipart/mixed", Some("cGxhaW4="), Some(<<Node("text/plain", Some("PGI-"), None)>>)),
          Node("multipart/mixed", None, None)}
    \cup {Node("multipart/mixed", None, Some(ps)) : ps \in PartLists}

BodyInit ==
    /\ pc = "call"
    /\ payload \in Payloads
    /\ bodyResult = NotCalled
    /\ now = Datetime(0, 0)
    /\ file = <<>>
    /\ qArgs = NoArgs /\ qResult = NoResult
    /\ lastMut = NoMutation /\ got = NotCalled
    /\ opts = NoOpts /\ run = NoRun /\ fe = NoFetch /\ calls = <<>> /\ hist = NoHist

GetEmailBody ==
    /\ pc = "call"
    /\ bodyResult' = get_email_body(payload)
    /\ pc' = "return"
    /\ UNCHANGED <<now, file, qArgs, qResult, lastMut, got, payload,
                   opts, run, fe, calls, hist>>

BodyNext == GetEmailBody

SpecBody == BodyInit /\ [][BodyNext]_vars

\* The positions of a child list that hold a plain (an HTML) part with data.
PlainAt(ps) ==
    {i \in 1..Len(ps) : ps[i].mimeType = "text/plain" /\ ps[i].body # None}
HtmlAt(ps) ==
    {i \in 1..Len(ps) : ps[i].mimeType = "text/html" /\ ps[i].body # None}
Decodes(part) == b64decode(part.body[1]).raised = ""
\* No child is itself a container.
OneLevel(ps) == \A i \in 1..Len(ps) : ps[i].parts = None

\* C6: at one level plain text beats HTML.  A node with inline data returns
\* that data decoded.  Otherwise, over a child list without nested containers
\* whose data decodes: with a text/plain part with data the result is the
\* (first) plain part decoded, wherever the HTML parts are listed; with HTML
\* parts only it is the (last) HTML part decoded; with neither it is "".
C6_PlainBeatsHtml ==
    pc = "return" =>
        /\ payload.body # None => bodyResult = b64decode(payload.body[1])
        /\ (payload.body = None /\ payload.parts = None) => bodyResult = Return("")
        /\ (payload.body = None /\ payload.parts # None /\ OneLevel(payload.parts[1])) =>
            LET ps == payload.parts[1] IN
            /\ (PlainAt(ps) # {} /\ Decodes(ps[Least(PlainAt(ps))])
                /\ \A i \in HtmlAt(ps) : i < Least(PlainAt(ps)) => Decodes(ps[i])) =>
                    /\ bodyResult.raised = ""
                    /\ bodyResult = b64decode(ps[Least(PlainAt(ps))].body[1])
            /\ (PlainAt(ps) = {} /\ HtmlAt(ps) # {} /\ \A i \in HtmlAt(ps) : Decodes(ps[i])) =>
                    bodyResult = b64decode(ps[Greatest(HtmlAt(ps))].body[1])
            /\ (PlainAt(ps) = {} /\ HtmlAt(ps) = {}) => bodyResult = Return("")

\* A payload whose HTML part is listed before its plain part, both with
\* different decodable data, has been decoded to the plain text.
C6_Witness ==
    /\ pc = "return"
    /\ payload.body = None /\ payload.parts # None
    /\ Len(payload.parts[1]) = 2
    /\ payload.parts[1][1] = Node("text/html", Some("PGI-"), None)
    /\ payload.parts[1][2] = Node("text/plain", Some("cGxhaW4="), None)
    /\ bodyResult = Return("plain")

\* The result of the recursive call on child i.
NestedResult(ps, i) == get_email_body(ps[i])
\* The walk ends at child i: a plain part with data, a container whose
\* recursive call yields a non-empty string, or a decoding error there.
EndsAt(ps, i) ==
    \/ i \in PlainAt(ps)
    \/ i \in HtmlAt(ps) /\ ~Decodes(ps[i])
    \/ ps[i].parts # None
       /\ (NestedResult(ps, i).raised # "" \/ NestedResult(ps, i).value # "")
\* The HTML fallback remembered after children 1..n: the last HTML part with
\* data among them, decoded, or "".
FallbackAfter(ps, n) ==
    LET seen == {i \in HtmlAt(ps) : i <= n}
    IN  IF seen = {} THEN Return("") ELSE b64decode(ps[Greatest(seen)].body[1])

\* C11: the children are visited in list order.  The walk ends at the first
\* child that is a plain part with data or whose recursive call yields a
\* non-empty string, and that string is the result, whatever HTML fallback is
\* remembered and whatever siblings follow; an empty recursive result leaves
\* the fallback as it is and the walk goes on; a walk that reaches the end
\* returns the fallback, "" when no HTML part was seen.
C11_NestedResultWins ==
    (pc = "return" /\ payload.body = None /\ payload.parts # None) =>
        LET ps == payload.parts[1]
            ends == {i \in 1..Len(ps) : EndsAt(ps, i)}
        IN  IF ends = {} THEN bodyResult = FallbackAfter(ps, Len(ps))
            ELSE LET k == Least(ends) IN
                 bodyResult = IF k \in PlainAt(ps) \/ ps[k].parts = None
                              THEN b64decode(ps[k].body[1])
                              ELSE NestedResult(ps, k)

\* An HTML part, then a container whose nested plain part has text, then a
\* plain part: the nested text has been returned.
C11_Witness ==
    /\ pc = "return"
    /\ payload.body = None /\ payload.parts # None
    /\ payload.parts[1] =
        <<Node("text/html", Some("PGI-"), None),
          Node("multipart/alternative", None,
               Some(<<Node("text/plain", Some("bmVzdA=="), None)>>)),
          Node("text/plain", Some("cGxhaW4="), None)>>
    /\ bodyResult = Return("nest")

-----------------------------------------------------------------------------
(* The mail provider: the messages get-message can return.                 *)

Header(n, v) == [name |-> n, value |-> v]

RawMessage(id, headers, p, labelIds) ==
    [id |-> id, threadId |-> id, payload |-> [headers |-> headers, tree |-> p],
     snippet |-> "...", labelIds |-> labelIds]

MessageIds == {"m1", "m2", "m3", "m4"}

\* m1: a complete single-part message.  m2: no Date header, no subject,
\* HTML listed before plain text.  m3: a Date header that is no date.
\* m4: a body that is no base64.
Mailbox(id) ==
    CASE id = "m1" ->
            RawMessage("m1",
                <<Header("Subject", "Hello"), Header("From", "John Doe <john@example.com>"),
                  Header("To", "me@example.com"),
                  Header("Date", "Fri, 2 Jan 1970 12:00:00 +0000")>>,
                Node("text/plain", Some("cGxhaW4="), None), <<"INBOX", "UNREAD">>)
      [] id = "m2" ->
            RawMessage("m2",
                <<Header("FROM", "jane@example.com"), Header("To", "me@example.com")>>,
                Node("multipart/alternative", None,
                     Some(<<Node("text/html", Some("PGI-"), None),
                            Node("text/plain", Some("cGxhaW4="), None)>>)),
                <<"INBOX">>)
      [] id = "m3" ->
            RawMessage("m3",
                <<Header("subject", "Re: Hello"), Header("From", "jane@example.com"),
                  Header("DATE", "not a date")>>,
                Node("text/plain", Some("cGxhaW4="), None), <<"UNREAD">>)
      [] OTHER ->
            RawMessage("m4",
                <<Header("Subject", "Broken"), Header("From", "jane@example.com"),
                  Header("Date", "Fri, 2 Jan 1970 12:00:00 +0000")>>,
                Node("text/plain", Some("abc"), None), <<>>)

-----------------------------------------------------------------------------
(* Normalisation of one message, gmail_client.py:63-103 and 194-224.       *)

\* str.lower() on the header names of the model.
Lower(n) ==
    CASE n \in {"Subject", "subject"} -> "subject"
      [] n \in {"From", "FROM"} -> "from"
      [] n \in {"Date", "DATE"} -> "date"
      [] n \in {"To"} -> "to"
      [] OTHER -> n

\* get_header_value, lines 90-103: the first header of that name, or "".
get_header_value(headers, name) ==
    LET hits == {i \in 1..Len(headers) : Lower(headers[i].name) = Lower(name)}
    IN  IF hits = {} THEN "" ELSE headers[Least(hits)].value

\* parse_email_address, lines 63-87, on the From headers of the model.
parse_email_address(header) ==
    IF header = "John Doe <john@example.com>"      \* "<" and ">" in header
    THEN <<"John Doe", "john@example.com">>
    ELSE <<header, header>>

\* email.utils.parsedate_to_datetime on the Date headers of the model.
parsedate_to_datetime(v) ==
    IF v = "Fri, 2 Jan 1970 12:00:00 +0000"
    THEN Return(Datetime(1, DayLen - 1))
    ELSE Raise("ValueError")

\* Line 205: the date of a message.
ParseDate(date_header, clock) ==
    IF date_header # "" THEN parsedate_to_datetime(date_header) ELSE Return(clock)

IsMember(x, seq) == \E i \in 1..Len(seq) : seq[i] = x

\* Lines 194-223: the Email of a raw message, or the exception raised.
Normalize(msg_data, clock) ==
    LET headers == msg_data.payload.headers
        subject == get_header_value(headers, "Subject")
        from_header == get_header_value(headers, "From")
        to_header == get_header_value(headers, "To")
        date_header == get_header_value(headers, "Date")
        sender == parse_email_address(from_header)
        date == ParseDate(date_header, clock)
        body == get_email_body(msg_data.payload.tree)
    IN  IF date.raised # "" THEN date
        ELSE IF body.raised # "" THEN body
        ELSE Return([id |-> msg_data.id,
                     thread_id |-> msg_data.threadId,
                     subject |-> IF subject # "" THEN subject ELSE "(No subject)",
                     sender |-> sender[1],
                     sender_email |-> sender[2],
                     recipient |-> to_header,
                     date |-> date.value,
                     snippet |-> msg_data.snippet,
                     body |-> body.value,
                     labels |-> msg_data.labelIds,
                     is_unread |-> IsMember("UNREAD", msg_data.labelIds)])

-----------------------------------------------------------------------------
(* The fetch command, main.py:45-169, and fetch_emails,                    *)
(* gmail_client.py:145-226.                                                *)

\* The default of fetch_emails' days parameter.
DefaultDays == 7
\* The day-count of an incremental run that finds no marker.
FirstRunDays == 7

\* datetime.strptime(date_str, "%Y-%m-%d") on the answers of the model.
strptime(date_str) ==
    IF date_str = "1970-01-02" THEN Return(Datetime(1, 0)) ELSE Raise("ValueError")

\* Lines 56-108: the options after the prompts, and whether to save state.
Prepare(days, since, unread_only, interactive, f, choice, answer_days, date_str, unread_filter) ==
    LET base == [raised |-> "", prompted |-> "none", days |-> days, since |-> since,
                 unread_only |-> unread_only, save_state |-> FALSE]
    IN  IF interactive /\ ~IntTruthy(days) /\ ~DatetimeTruthy(since)
        THEN LET last_run == get_last_run(f) IN
             IF last_run.raised # "" THEN [base EXCEPT !.raised = last_run.raised]
             ELSE IF DatetimeTruthy(last_run.value)
             THEN CASE choice = "1" ->
                         [base EXCEPT !.prompted = "1", !.since = last_run.value,
                                      !.save_state = TRUE, !.unread_only = unread_filter]
                    [] choice = "2" ->
                         [base EXCEPT !.prompted = "2", !.days = Some(answer_days),
                                      !.unread_only = unread_filter]
                    [] OTHER ->
                         LET d == strptime(date_str) IN
                         IF d.raised # ""
                         THEN [base EXCEPT !.prompted = "3", !.raised = d.raised]
                         ELSE [base EXCEPT !.prompted = "3", !.since = Some(d.value),
                                           !.unread_only = unread_filter]
             ELSE [base EXCEPT !.prompted = "first", !.days = Some(answer_days),
                               !.save_state = TRUE, !.unread_only = unread_filter]
        ELSE [base EXCEPT !.save_state = ~IntTruthy(days) /\ ~DatetimeTruthy(since)]

\* Lines 113-136: the after and days arguments fetch_emails is called with
\* (days keeps its default where the call does not pass it).
FetchStrategy(days, since, f) ==
    IF IntTruthy(days) THEN [raised |-> "", after |-> None, days |-> days]
    ELSE IF DatetimeTruthy(since)
    THEN [raised |-> "", after |-> since, days |-> Some(DefaultDays)]
    ELSE LET last_run == get_last_run(f) IN
         IF last_run.raised # ""
         THEN [raised |-> last_run.raised, after |-> None, days |-> None]
         ELSE IF DatetimeTruthy(last_run.value)
         THEN [raised |-> "", after |-> last_run.value, days |-> Some(DefaultDays)]
         ELSE [raised |-> "", after |-> None, days |-> Some(FirstRunDays)]

\* Lines 158-169: the marker file after an exception handler has run.
OnException_saves(f, clock, save_state) ==
    IF save_state THEN save_last_run(clock) ELSE f
OnException(f, clock, save_state) == f

\* Line 181: results.get("messages", []).
ResultsMessages_subscript(results) ==
    IF results.messages = None THEN Raise("KeyError") ELSE Return(results.messages[1])
ResultsMessages(results) ==
    Return(IF results.messages = None THEN <<>> ELSE results.messages[1])

\* Line 224: emails.append(email).
AppendEmail_front(emails, email) == <<email>> \o emails
AppendEmail(emails, email) == Append(emails, email)

\* The provider calls of a run.
ListCall(q) == [op |-> "list", q |-> q, id |-> ""]
GetCall(id) == [op |-> "get", q |-> <<>>, id |-> id]

-----------------------------------------------------------------------------
(* Spec: the command line.                                                 *)

\* The most ids list-messages returns (within the max-results cap).
MaxIds == 2
\* The most ticks the clock advances.
MaxTicks == 1

CliDays == Opt(0..MaxDays)
\* The dates --since is given: the epoch's day and the last day.
SinceDates == {Datetime(0, 0), Datetime(MaxDay, 0)}
PromptDays == 0..MaxDays
Choices == {"1", "2", "3"}
DateStrings == {"1970-01-02", "yesterday"}
IdLists == UNION {[1..n -> MessageIds] : n \in 0..MaxIds}
\* The response of list-messages: the provider leaves "messages" out when
\* nothing matches.
ListResponses == [messages : Opt(IdLists)]

\* The marker file when the program starts: none, a marker of an earlier
\* run, or a file that was damaged.
StartFiles ==
    {NoFile, save_last_run(Datetime(0, DayLen - 1)),
     FileOf(Doc("invalid", JsonAbsent, None)),
     FileOf(Doc("nonobject", JsonAbsent, None))}

IdleOpts == [days |-> None, since |-> None, interactive |-> TRUE]
IdleRun ==
    [prompted |-> "none", days |-> None, since |-> None, unread_only |-> TRUE,
     save_state |-> FALSE, current_run |-> None, emails |-> None, raised |-> ""]
IdleFetch ==
    [after |-> None, days |-> None, query |-> <<>>, response |-> None,
     messages |-> <<>>, emails |-> <<>>]
IdleHist == [fileAtStart |-> NoFile, writes |-> 0]

\* The clock when the program is first started, and its last instant.
StartClock == Datetime(1, 0)
LastTimestamp == timestamp(StartClock) + MaxTicks

Init ==
    /\ pc = "idle"
    /\ now = StartClock
    /\ file \in StartFiles
    /\ opts = IdleOpts /\ run = IdleRun /\ fe = IdleFetch
    /\ calls = <<>> /\ hist = IdleHist
    /\ got = NotCalled
    /\ qArgs = NoArgs /\ qResult = NoResult
    /\ lastMut = NoMutation
    /\ payload = NoPayload /\ bodyResult = NotCalled

Harness == <<qArgs, qResult, lastMut, payload, bodyResult>>

\* An exception reaches the handlers of lines 158-169.
Fail(e) ==
    /\ pc' = "failed"
    /\ run' = [run EXCEPT !.raised = e]
    /\ file' = OnException(file, now, run.save_state)

\* fetch() up to the list-messages call: the prompts, the strategy,
\* get_gmail_service and build_query.
FetchBegin ==
    /\ pc = "idle"
    /\ \E days \in CliDays, since \in Opt(SinceDates), unread_only \in BOOLEAN,
          interactive \in BOOLEAN, choice \in Choices, answer_days \in PromptDays,
          date_str \in DateStrings, unread_filter \in BOOLEAN, credentials \in BOOLEAN :
        LET p == Prepare(days, since, unread_only, interactive, file,
                         choice, answer_days, date_str, unread_filter)
            a == IF p.raised # "" THEN [raised |-> p.raised, after |-> None, days |-> None]
                 ELSE FetchStrategy(p.days, p.since, file)
            raised == IF a.raised # "" THEN a.raised
                      ELSE IF ~credentials THEN "FileNotFoundError" ELSE ""
        IN  /\ opts' = [days |-> days, since |-> since, interactive |-> interactive]
            /\ run' = [prompted |-> p.prompted, days |-> p.days, since |-> p.since,
                       unread_only |-> p.unread_only, save_state |-> p.save_state,
                       current_run |-> IF p.raised = "" THEN Some(now) ELSE None,
                       emails |-> None, raised |-> raised]
            /\ IF raised = ""
               THEN /\ fe' = [after |-> a.after, days |-> a.days,
                              query |-> build_query(a.after, None, a.days,
                                                    p.unread_only, None, now),
                              response |-> None, messages |-> <<>>, emails |-> <<>>]
                    /\ pc' = "list"
                    /\ file' = file
               ELSE /\ fe' = IdleFetch
                    /\ pc' = "failed"
                    /\ file' = OnException(file, now, p.save_state)
    /\ calls' = <<>>
    /\ hist' = [fileAtStart |-> file, writes |-> 0]
    /\ got' = NotCalled
    /\ UNCHANGED <<now, Harness>>

\* Lines 179-185: the list-messages call and the early return.
ListMessages ==
    /\ pc = "list"
    /\ calls' = Append(calls, ListCall(fe.query))
    /\ \/ \E results \in ListResponses :
            LET messages == ResultsMessages(results) IN
            IF messages.raised # ""
            THEN Fail(messages.raised) /\ fe' = [fe EXCEPT !.response = Some(results)]
            ELSE /\ fe' = [fe EXCEPT !.response = Some(results),
                                     !.messages = messages.value]
                 /\ IF messages.value = <<>>
                    THEN run' = [run EXCEPT !.emails = Some(<<>>)] /\ pc' = "display"
                    ELSE UNCHANGED run /\ pc' = "get"
                 /\ UNCHANGED file
       \/ Fail("HttpError") /\ UNCHANGED fe
    /\ UNCHANGED <<now, opts, hist, got, Harness>>

\* Lines 191-226: one turn of the loop, and the return after the last.
GetMessage ==
    /\ pc = "get"
    /\ LET msg == fe.messages[Len(fe.emails) + 1] IN
       /\ calls' = Append(calls, GetCall(msg))
       /\ \/ LET email == Normalize(Mailbox(msg), now) IN
             IF email.raised # ""
             THEN /\ Fail(email.raised)
                  /\ UNCHANGED fe
             ELSE LET emails == AppendEmail(fe.emails, email.value) IN
                  /\ fe' = [fe EXCEPT !.emails = emails]
                  /\ IF Len(emails) >= Len(fe.messages)
                     THEN run' = [run EXCEPT !.emails = Some(emails)] /\ pc' = "display"
                     ELSE UNCHANGED run /\ pc' = "get"
                  /\ UNCHANGED file
          \/ Fail("HttpError") /\ UNCHANGED fe
    /\ UNCHANGED <<now, opts, hist, got, Harness>>

\* Lines 138-156: the results are shown and the marker is saved.
Finish ==
    /\ pc = "display"
    /\ pc' = "done"
    /\ IF run.save_state
       THEN /\ file' = save_last_run(run.current_run[1])
            /\ hist' = [hist EXCEPT !.writes = @ + 1]
       ELSE UNCHANGED <<file, hist>>
    /\ UNCHANGED <<now, opts, run, fe, calls, got, Harness>>

\* The command ends.
Exit ==
    /\ pc \in {"done", "failed"}
    /\ pc' = "idle"
    /\ opts' = IdleOpts /\ run' = IdleRun /\ fe' = IdleFetch
    /\ calls' = <<>> /\ hist' = IdleHist
    /\ UNCHANGED <<now, file, got, Harness>>

\* The reset command, main.py:172-184.
ResetCommand ==
    /\ pc = "idle"
    /\ \E confirm \in BOOLEAN :
        file' = IF confirm THEN reset_last_run(file) ELSE file
    /\ got' = NotCalled
    /\ UNCHANGED <<pc, now, opts, run, fe, calls, hist, Harness>>

\* The status command, main.py:187-207.
StatusCommand ==
    /\ pc = "idle"
    /\ got' = get_last_run(file)
    /\ UNCHANGED <<pc, now, file, opts, run, fe, calls, hist, Harness>>

\* The clock advances while the program waits for the user or the provider.
Tick ==
    /\ pc \in {"idle", "list", "get"}
    /\ timestamp(now) < LastTimestamp
    /\ now' = fromtimestamp(timestamp(now) + 1)
    /\ UNCHANGED <<pc, file, opts, run, fe, calls, hist, got, Harness>>

Next ==
    \/ FetchBegin \/ ListMessages \/ GetMessage \/ Finish \/ Exit
    \/ ResetCommand \/ StatusCommand \/ Tick

Spec == Init /\ [][Next]_vars

-----------------------------------------------------------------------------
(* Properties of Spec.                                                     *)

IsGetCall(c) == c.op = "get"
IsAfterTerm(t) == t.k = "after:"
\* The ids get-message was called with in this run, in call order.
GetIds ==
    LET g == SelectSeq(calls, IsGetCall) IN [i \in 1..Len(g) |-> g[i].id]
\* The values the clock takes.
ClockValues == {fromtimestamp(n) : n \in timestamp(StartClock)..LastTimestamp}

\* C1: when the user gave no day-count, the query passed to list-messages
\* carries as its lower bound the explicit since-date (option or prompt), or,
\* in incremental mode with a marker M present, the date of M.
C1_IncrementalUsesMarker ==
    (calls # <<>> /\ calls[1].op = "list" /\ opts.days = None) =>
        LET lower == SelectSeq(calls[1].q, IsAfterTerm)
            M == get_last_run(hist.fileAtStart)
        IN  /\ opts.since # None =>
                lower = <<AfterTerm(strftime_date(opts.since[1]))>>
            /\ run.prompted = "3" =>
                lower = <<AfterTerm(strftime_date(run.since[1]))>>
            /\ (opts.since = None /\ run.prompted \in {"none", "1"}
                /\ M.raised = "" /\ M.value # None) =>
                lower = <<AfterTerm(strftime_date(M.value[1]))>>

\* The Date header of a message is missing or is no date.
HasBadDate(id) ==
    LET h == get_header_value(Mailbox(id).payload.headers, "Date")
    IN  h = "" \/ parsedate_to_datetime(h).raised # ""
BodyDecodes(id) == get_email_body(Mailbox(id).payload.tree).raised = ""

\* C3: every message the provider returned whose Date header is missing or
\* unparseable (and whose body decodes) is normalized, with the time of the
\* fetch as its date: a bad Date header never aborts the fetch.
C3_BadDateNeverAborts ==
    \A i \in 1..Len(GetIds) :
        (/\ HasBadDate(GetIds[i])
         /\ BodyDecodes(GetIds[i])
         /\ ~(i = Len(GetIds) /\ pc = "failed" /\ run.raised = "HttpError")) =>
            /\ i <= Len(fe.emails)
            /\ fe.emails[i].id = GetIds[i]
            /\ fe.emails[i].date \in ClockValues
            /\ timestamp(run.current_run[1]) <= timestamp(fe.emails[i].date)
            /\ timestamp(fe.emails[i].date) <= timestamp(now)

\* C7: list-messages is the first provider call and the only list call; the
\* get-message calls follow the ids it returned, one per id, in order; what
\* fetch_emails returns has one element per id and its i-th element is the
\* normalization of the i-th id.
C7_HydratesInProviderOrder ==
    /\ \A i \in 1..Len(calls) : (calls[i].op = "list") <=> (i = 1)
    /\ GetIds # <<>> => fe.response # None
    /\ Len(GetIds) <= Len(fe.messages)
    /\ \A i \in 1..Len(GetIds) : GetIds[i] = fe.messages[i]
    /\ run.emails # None =>
        /\ GetIds = fe.messages
        /\ Len(run.emails[1]) = Len(fe.messages)
        /\ \A i \in 1..Len(fe.messages) :
            /\ run.emails[1][i].id = fe.messages[i]
            /\ \E c \in ClockValues :
                run.emails[1][i] = Normalize(Mailbox(fe.messages[i]), c).value

\* A finished run that hydrated two different messages.
C7_Witness ==
    /\ pc = "done"
    /\ fe.messages = <<"m2", "m1">>
    /\ GetIds = <<"m2", "m1">>
    /\ Len(run.emails[1]) = 2
    /\ run.emails[1][1].id = "m2" /\ run.emails[1][2].id = "m1"

\* The response of list-messages holds no ids.
NoIds(response) == response.messages = None \/ response.messages = Some(<<>>)

\* C8: when list-messages yields no ids, fetch_emails returns the empty
\* sequence and no get-message call is made.
C8_EmptyListNoGet ==
    (fe.response # None /\ NoIds(fe.response[1])) =>
        /\ pc \in {"display", "done"}
        /\ run.emails = Some(<<>>)
        /\ GetIds = <<>>

\* A finished run whose list-messages response had no "messages".
C8_Witness ==
    /\ pc = "done"
    /\ fe.response = Some([messages |-> None])
    /\ run.emails = Some(<<>>)
    /\ calls = <<ListCall(fe.query)>>

\* C9: a run writes the marker at most once, and only when every provider
\* call has completed and fetch_emails has returned; a run in which a call,
\* the body decoding or the date parsing raised has no results and leaves the
\* marker file as it was when the run began.
C9_MarkerWrittenOnceAfterSuccess ==
    /\ hist.writes <= 1
    /\ hist.writes = 1 =>
        /\ pc = "done" /\ run.raised = "" /\ run.emails # None
        /\ calls # <<>> /\ calls[1].op = "list" /\ fe.response # None
        /\ GetIds = fe.messages
    /\ pc \in {"list", "get", "display", "failed"} =>
        file = hist.fileAtStart /\ hist.writes = 0
    /\ (pc = "done" /\ hist.writes = 0) => file = hist.fileAtStart
    /\ run.raised # "" <=> pc = "failed"
    /\ pc = "failed" => run.emails = None

\* A run that was to save state, hydrated one message, then failed on the
\* Date header of the next, with a marker on file.
C9_Witness ==
    /\ pc = "failed"
    /\ run.raised = "ValueError"
    /\ run.save_state
    /\ Len(fe.emails) = 1 /\ Len(GetIds) = 2
    /\ hist.fileAtStart.exists
    /\ file = hist.fileAtStart

\* C10: a finished run with an explicit day-count or since-date (option or
\* prompt) never writes the marker; a first run or an incremental run without
\* such an option always writes it.
C10_ModeDecidesSave ==
    pc = "done" =>
        /\ (opts.days # None \/ opts.since # None \/ run.prompted \in {"2", "3"}) =>
            hist.writes = 0
        /\ (opts.days = None /\ opts.since = None
            /\ run.prompted \in {"none", "first", "1"}) =>
            hist.writes = 1

====
